---- MODULE Spec2Model ----
(***************************************************************************)
(* Model of the stochastic agent-based STI simulator of                    *)
(* Code/stochastic_network_model.py: the Person and Partnership methods,   *)
(* System.initialize, System.replace_person and the phases of              *)
(* System.time_step.                                                       *)
(*                                                                         *)
(* The System object is the record s; its fields carry the names of the    *)
(* attributes of the Python class.  Identifiers are 0-based as in the      *)
(* code, so s.persons is a function on 0..N-1 and s.age_group one on 0..4. *)
(* A probability is kept in percent (0..100); the outcome of a comparison  *)
(* `np.random.random() < prob` is a nondeterministic boolean, forced to    *)
(* FALSE when prob <= 0 and to TRUE when prob >= 1.                        *)
(* An uncaught Python exception (KeyError of set.remove) is s.raised: once *)
(* set, nothing else of the run executes.                                  *)
(***************************************************************************)
EXTENDS Integers, Sequences, FiniteSets, TLC

VARIABLES
    s,       \* the System object (self / s in the code)
    pc,      \* the phase of time_step that runs next; "boundary" between days
    n,       \* time_step: number of potential Partnerships to create
    i,       \* time_step: position of the formation loop `for i in range(n)`
    formed,  \* time_step: flag of the `while not formed` loop
    p,       \* time_step: position of the replacement loop `for p in self.persons`
    net      \* the run of network_model of Code/network_model.py, if any

vars == <<s, pc, n, i, formed, p, net>>

\* Number of simulated days after which time_step is no longer called.
MaxTime == 2

\* Number of individuals the experiment driver seeds as initially infected.
MaxSeeds == 1

\* Number of iterations of network_model (its argument num_steps).
MaxSteps == 2

\* Days in a year: Person.increase_time calls increase_age at this value.
DaysPerYear == 365

\* The age at which a Person is replaced.
ReplacementAge == 65

\* Sexual activity is set to low from this age on.
LowActivityAge == 35

-----------------------------------------------------------------------------
\* Outcomes of `np.random.random() < prob`, prob in percent.
random_lt(prob) ==
    IF prob <= 0 THEN {FALSE} ELSE IF prob >= 100 THEN {TRUE} ELSE BOOLEAN

raise(sys) == [sys EXCEPT !.raised = TRUE]

Ids(sys) == DOMAIN sys.persons

\* Person.__init__
Person(gender, age, days, sexual_activity) ==
    [gender |-> gender, age |-> age, days |-> days,
     sexual_activity |-> sexual_activity,
     disease_status |-> 0, time_since_infection |-> -1,
     number_of_partners |-> 0, current_partners |-> {}]

-----------------------------------------------------------------------------
\* Person.asymptomatic_infection
asymptomatic_infection(sys, id) ==
    IF sys.raised THEN sys
    ELSE IF sys.persons[id].disease_status = 0
    THEN [sys EXCEPT !.persons[id].disease_status = 2,
                     !.persons[id].time_since_infection = 0,
                     !.number_of_asymptomatic = @ + 1,
                     !.infected = @ \cup {id}]
    ELSE sys

\* Person.symptomatic_infection
symptomatic_infection(sys, id) ==
    IF sys.raised THEN sys
    ELSE IF sys.persons[id].disease_status = 0
    THEN [sys EXCEPT !.persons[id].disease_status = 1,
                     !.persons[id].time_since_infection = 0,
                     !.number_of_symptomatic = @ + 1,
                     !.infected = @ \cup {id}]
    ELSE sys

\* resistant_infection_head without `s.resistant.add` in its elif branch.
resistant_infection_head_no_add(sys, id) ==
    IF sys.persons[id].disease_status = 0
    THEN [sys EXCEPT !.persons[id].time_since_infection = 0,
                     !.infected = @ \cup {id},
                     !.resistant = @ \cup {id}]
    ELSE IF sys.persons[id].disease_status = 1
    THEN [sys EXCEPT !.number_of_symptomatic = @ - 1]
    ELSE sys

\* resistant_infection_head without `s.number_of_symptomatic -= 1`.
resistant_infection_head_no_count(sys, id) ==
    IF sys.persons[id].disease_status = 0
    THEN [sys EXCEPT !.persons[id].time_since_infection = 0,
                     !.infected = @ \cup {id},
                     !.resistant = @ \cup {id}]
    ELSE IF sys.persons[id].disease_status = 1
    THEN [sys EXCEPT !.resistant = @ \cup {id}]
    ELSE sys

\* The common head of the two resistant infections: the if / elif on the
\* current disease_status.
resistant_infection_head(sys, id) ==
    IF sys.persons[id].disease_status = 0
    THEN [sys EXCEPT !.persons[id].time_since_infection = 0,
                     !.infected = @ \cup {id},
                     !.resistant = @ \cup {id}]
    ELSE IF sys.persons[id].disease_status = 1
    THEN [sys EXCEPT !.number_of_symptomatic = @ - 1,
                     !.resistant = @ \cup {id}]
    ELSE sys

\* Person.resistant_symptomatic_infection
resistant_symptomatic_infection(sys, id) ==
    IF sys.raised THEN sys
    ELSE [resistant_infection_head(sys, id) EXCEPT
              !.persons[id].disease_status = 3,
              !.number_of_res_symp = @ + 1]

\* Person.resistant_asymptomatic_infection
resistant_asymptomatic_infection(sys, id) ==
    IF sys.raised THEN sys
    ELSE [resistant_infection_head(sys, id) EXCEPT
              !.persons[id].disease_status = 4,
              !.number_of_res_asymp = @ + 1]

\* Person.cure with `s.infected.remove` outside its `if`.
cure_removes_always(sys, id) ==
    IF sys.raised THEN sys
    ELSE
    LET st == sys.persons[id].disease_status
        s1 == IF st = 1 THEN [sys EXCEPT !.number_of_symptomatic = @ - 1]
              ELSE IF st = 2 THEN [sys EXCEPT !.number_of_asymptomatic = @ - 1]
              ELSE IF st = 3 THEN [sys EXCEPT !.number_of_res_symp = @ - 1]
              ELSE IF st = 4 THEN [sys EXCEPT !.number_of_res_asymp = @ - 1]
              ELSE sys
    IN  IF id \notin s1.infected THEN raise(s1)
        ELSE
        LET s2 == [s1 EXCEPT !.infected = @ \ {id}]
        IN  IF st > 2 /\ id \notin s2.resistant THEN raise(s2)
            ELSE
            LET s3 == IF st > 2 THEN [s2 EXCEPT !.resistant = @ \ {id}] ELSE s2
            IN  [s3 EXCEPT !.persons[id].disease_status = 0,
                           !.persons[id].time_since_infection = -1]

\* Person.cure: the counters first, then the two set removals (set.remove
\* raises KeyError on a missing element), then the reset of the Person.
cure(sys, id) ==
    IF sys.raised THEN sys
    ELSE
    LET st == sys.persons[id].disease_status
        s1 == IF st = 1 THEN [sys EXCEPT !.number_of_symptomatic = @ - 1]
              ELSE IF st = 2 THEN [sys EXCEPT !.number_of_asymptomatic = @ - 1]
              ELSE IF st = 3 THEN [sys EXCEPT !.number_of_res_symp = @ - 1]
              ELSE IF st = 4 THEN [sys EXCEPT !.number_of_res_asymp = @ - 1]
              ELSE sys
    IN  IF st > 0 /\ id \notin s1.infected THEN raise(s1)
        ELSE
        LET s2 == IF st > 0 THEN [s1 EXCEPT !.infected = @ \ {id}] ELSE s1
        IN  IF st > 2 /\ id \notin s2.resistant THEN raise(s2)
            ELSE
            LET s3 == IF st > 2 THEN [s2 EXCEPT !.resistant = @ \ {id}] ELSE s2
            IN  [s3 EXCEPT !.persons[id].disease_status = 0,
                           !.persons[id].time_since_infection = -1]

-----------------------------------------------------------------------------
\* Person.add_partner
add_partner(sys, id, other) ==
    IF sys.raised THEN sys
    ELSE
    LET s1 == IF sys.persons[id].number_of_partners = 0
              THEN [sys EXCEPT !.number_of_singles = @ - 1]
              ELSE sys
    IN  IF sys.persons[id].number_of_partners = 0 /\ id \notin s1.singles
        THEN raise(s1)
        ELSE
        LET s2 == IF sys.persons[id].number_of_partners = 0
                  THEN [s1 EXCEPT !.singles = @ \ {id}]
                  ELSE s1
        IN  IF other \notin s2.persons[id].current_partners
            THEN [s2 EXCEPT !.persons[id].number_of_partners = @ + 1,
                            !.persons[id].current_partners = @ \cup {other}]
            ELSE s2

\* remove_partner that does not put a Person without partners back into
\* the singles.
remove_partner_not_single(sys, id, other) ==
    IF sys.raised THEN sys
    ELSE
    LET s1 == [sys EXCEPT !.persons[id].number_of_partners = @ - 1]
    IN  IF other \notin s1.persons[id].current_partners THEN raise(s1)
        ELSE [s1 EXCEPT !.persons[id].current_partners = @ \ {other}]

\* Person.remove_partner: the count is decremented before set.remove can
\* raise.
remove_partner(sys, id, other) ==
    IF sys.raised THEN sys
    ELSE
    LET s1 == [sys EXCEPT !.persons[id].number_of_partners = @ - 1]
    IN  IF other \notin s1.persons[id].current_partners THEN raise(s1)
        ELSE
        LET s2 == [s1 EXCEPT !.persons[id].current_partners = @ \ {other}]
        IN  IF s2.persons[id].number_of_partners = 0
            THEN [s2 EXCEPT !.number_of_singles = @ + 1,
                            !.singles = @ \cup {id}]
            ELSE s2

\* increase_age that adds the Person to the next age group without removing
\* it from the previous one.
increase_age_keeps_group(sys, id) ==
    IF sys.raised THEN sys
    ELSE
    LET s1 == [sys EXCEPT !.persons[id].age = @ + 1, !.persons[id].days = 0]
        age == s1.persons[id].age
        down == age >= LowActivityAge /\ s1.persons[id].sexual_activity = 1
        s2 == IF down
              THEN [s1 EXCEPT !.persons[id].sexual_activity = 0,
                              !.high_sexual_activity = @ \ {id}]
              ELSE s1
        age_group == ((age + 5) \div 10) - 2
    IN  IF age % 10 = 5 /\ age < ReplacementAge
        THEN [s2 EXCEPT !.age_group[age_group] = @ \cup {id}]
        ELSE s2

\* increase_age without the change of sexual activity at the age of 35.
increase_age_stays_high(sys, id) ==
    IF sys.raised THEN sys
    ELSE
    LET s1 == [sys EXCEPT !.persons[id].age = @ + 1, !.persons[id].days = 0]
        age == s1.persons[id].age
        age_group == ((age + 5) \div 10) - 2
    IN  IF age % 10 = 5 /\ age < ReplacementAge
        THEN IF id \notin s1.age_group[age_group - 1] THEN raise(s1)
             ELSE [s1 EXCEPT !.age_group[age_group - 1] = @ \ {id},
                             !.age_group[age_group] = @ \cup {id}]
        ELSE s1

\* Person.increase_age
increase_age(sys, id) ==
    IF sys.raised THEN sys
    ELSE
    LET s1 == [sys EXCEPT !.persons[id].age = @ + 1, !.persons[id].days = 0]
        age == s1.persons[id].age
        down == age >= LowActivityAge /\ s1.persons[id].sexual_activity = 1
    IN  IF down /\ id \notin s1.high_sexual_activity THEN
            raise([s1 EXCEPT !.persons[id].sexual_activity = 0])
        ELSE
        LET s2 == IF down
                  THEN [s1 EXCEPT !.persons[id].sexual_activity = 0,
                                  !.high_sexual_activity = @ \ {id}]
                  ELSE s1
            age_group == ((age + 5) \div 10) - 2
        IN  IF age % 10 = 5 /\ age < ReplacementAge
            THEN IF id \notin s2.age_group[age_group - 1] THEN raise(s2)
                 ELSE [s2 EXCEPT !.age_group[age_group - 1] = @ \ {id},
                                 !.age_group[age_group] = @ \cup {id}]
            ELSE s2

\* increase_time without the test `self.disease_status > 0`.
increase_time_counts_all(sys, id) ==
    IF sys.raised THEN sys
    ELSE
    LET s1 == [sys EXCEPT !.persons[id].days = @ + 1]
        s2 == [s1 EXCEPT !.persons[id].time_since_infection = @ + 1]
    IN  IF s2.persons[id].days = DaysPerYear THEN increase_age(s2, id) ELSE s2

\* Person.increase_time
increase_time(sys, id) ==
    IF sys.raised THEN sys
    ELSE
    LET s1 == [sys EXCEPT !.persons[id].days = @ + 1]
        s2 == IF s1.persons[id].disease_status > 0
              THEN [s1 EXCEPT !.persons[id].time_since_infection = @ + 1]
              ELSE s1
    IN  IF s2.persons[id].days = DaysPerYear THEN increase_age(s2, id) ELSE s2

-----------------------------------------------------------------------------
\* Partnership.__init__: the object built, and its effect on the System.
Partnership(partnership_type, person1, person2) ==
    [type |-> partnership_type, persons |-> <<person1, person2>>]

\* Partnership.__init__ that registers the relation on person1 only.
PartnershipInit_one_side(sys, person1, person2) ==
    add_partner(sys, person1, person2)

PartnershipInit(sys, person1, person2) ==
    add_partner(add_partner(sys, person1, person2), person2, person1)

\* Partnership.remove that deregisters the relation on person1 only.
PartnershipRemove_one_side(sys, ps) ==
    remove_partner(sys, ps.persons[1], ps.persons[2])

\* Partnership.remove
PartnershipRemove(sys, ps) ==
    remove_partner(remove_partner(sys, ps.persons[1], ps.persons[2]),
                   ps.persons[2], ps.persons[1])

\* The value None that replaces a removed Partnership in the list, and
\* list(filter(None, self.partnerships)).
None == [type |-> 0, persons |-> <<-1, -1>>]

filter_none(partnerships) == SelectSeq(partnerships, LAMBDA ps : ps # None)

-----------------------------------------------------------------------------
\* System.__init__
System ==
    [persons |-> <<>>, partnerships |-> <<>>,
     straight_males |-> {}, females |-> {}, high_sexual_activity |-> {},
     singles |-> {}, infected |-> {}, resistant |-> {},
     age_group |-> [g \in 0..4 |-> {}],
     time |-> 0,
     number_of_symptomatic |-> 0, number_of_asymptomatic |-> 0,
     number_of_res_symp |-> 0, number_of_res_asymp |-> 0,
     number_of_steady |-> 0, number_of_singles |-> 0,
     raised |-> FALSE]

\* System.set_constants: the parameters become attributes of the System.
set_constants(sys, c) == sys @@ c

\* A parameter set in which every random comparison can go either way.
\* Incubation times and treatment delays are in days.
Parameters(size, inc_men, inc_women, delay_men, delay_women) ==
    [rho |-> 50, sigma1 |-> 50, sigma2 |-> 50,
     number_of_persons |-> size, gender_ratio |-> 50,
     transmission_male_female_steady |-> 50,
     transmission_female_male_steady |-> 50,
     transmission_male_female_casual |-> 50,
     transmission_female_male_casual |-> 50,
     asymptomatic_men |-> 50, asymptomatic_women |-> 50,
     incubation_time_men |-> inc_men, incubation_time_women |-> inc_women,
     patient_delay_treatment_men |-> delay_men,
     patient_delay_treatment_women |-> delay_women,
     recovery_rate_asymptomatic_men |-> 50,
     recovery_rate_symptomatic_men |-> 50,
     recovery_rate_asymptomatic_women |-> 50,
     recovery_rate_symptomatic_women |-> 50,
     sexual_activity_high |-> 50, resistance_probability |-> 50]

\* A pass of the loop of System.initialize with `self.females.add` outside
\* the else branch.
initialize_person_all_females(sys, id, d) ==
    LET gender == IF d.male THEN 0 ELSE 1
        high == d.age >= 15 /\ d.age < LowActivityAge /\ d.high
        age_group == ((d.age + 5) \div 10) - 2
        person == Person(gender, d.age, d.days, IF high THEN 1 ELSE 0)
    IN  [sys EXCEPT
            !.persons = [x \in 0..id |-> IF x < id THEN sys.persons[x] ELSE person],
            !.high_sexual_activity = IF high THEN @ \cup {id} ELSE @,
            !.straight_males = IF gender = 0 THEN @ \cup {id} ELSE @,
            !.females = @ \cup {id},
            !.singles = @ \cup {id},
            !.age_group[age_group] = @ \cup {id},
            !.number_of_singles = sys.number_of_persons]

\* One pass of the loop of System.initialize for identifier id; d holds the
\* random draws of the pass: d.male is `random() < gender_ratio`, d.age is
\* randint(15,65), d.days is randint(0,365) and d.high is
\* `random() < sexual_activity_high` (drawn only when age < 35).
initialize_person(sys, id, d) ==
    LET gender == IF d.male THEN 0 ELSE 1
        high == d.age >= 15 /\ d.age < LowActivityAge /\ d.high
        age_group == ((d.age + 5) \div 10) - 2
        person == Person(gender, d.age, d.days, IF high THEN 1 ELSE 0)
    IN  [sys EXCEPT
            !.persons = [x \in 0..id |-> IF x < id THEN sys.persons[x] ELSE person],
            !.high_sexual_activity = IF high THEN @ \cup {id} ELSE @,
            !.straight_males = IF gender = 0 THEN @ \cup {id} ELSE @,
            !.females = IF gender = 0 THEN @ ELSE @ \cup {id},
            !.singles = @ \cup {id},
            !.age_group[age_group] = @ \cup {id},
            !.number_of_singles = sys.number_of_persons]

\* System.initialize: draws[id + 1] are the draws for identifier id.
RECURSIVE initialize_from(_, _, _)
initialize_from(sys, id, draws) ==
    IF id >= sys.number_of_persons THEN sys
    ELSE initialize_from(initialize_person(sys, id, draws[id + 1]), id + 1, draws)

initialize(sys, draws) == initialize_from(sys, 0, draws)

\* The loop of System.replace_person over self.partnerships, from list
\* position j on.
RECURSIVE replace_person_partnerships(_, _, _)
replace_person_partnerships(sys, id, j) ==
    IF sys.raised \/ j > Len(sys.partnerships) THEN sys
    ELSE
    LET ps == sys.partnerships[j]
    IN  IF id \in {ps.persons[1], ps.persons[2]}
        THEN LET s1 == PartnershipRemove(sys, ps)
                 s2 == IF s1.raised THEN s1
                       ELSE [s1 EXCEPT !.partnerships[j] = None]
                 s3 == IF ~s2.raised /\ ps.type = 1
                       THEN [s2 EXCEPT !.number_of_steady = @ - 1]
                       ELSE s2
             IN  replace_person_partnerships(s3, id, j + 1)
        ELSE replace_person_partnerships(sys, id, j + 1)

\* System.replace_person; high is the draw `random() < sexual_activity_high`.
replace_person(sys, id, high) ==
    IF sys.raised THEN sys
    ELSE
    LET s1 == [sys EXCEPT !.persons[id].age = 15, !.persons[id].days = 0]
    IN  IF id \notin s1.age_group[4] THEN raise(s1)
        ELSE
        LET s2 == [s1 EXCEPT !.age_group[4] = @ \ {id},
                             !.age_group[0] = @ \cup {id}]
            s3 == IF high
                  THEN [s2 EXCEPT !.persons[id].sexual_activity = 1,
                                  !.high_sexual_activity = @ \cup {id}]
                  ELSE [s2 EXCEPT !.persons[id].sexual_activity = 0]
            s4 == replace_person_partnerships(cure(s3, id), id, 1)
        IN  IF s4.raised THEN s4
            ELSE [s4 EXCEPT !.partnerships = filter_none(@)]

-----------------------------------------------------------------------------
\* age_group_mixing: the unnormalized weight of list position idx, scaled by
\* 5^5 so that 0.2^d is the integer 5^(5-d).  Position idx is the pair
\* (j, k) of the two linspace(1,5,5) loops, j outer and k inner.
age_group_mixing_weight(idx) ==
    LET j == (idx \div 5) + 1
        k == (idx % 5) + 1
        d == IF j + 1 - k >= 0 THEN j + 1 - k ELSE k - (j + 1)
    IN  IF j = k THEN 5 ^ 5 ELSE 5 ^ (5 - d)

\* The positions np.random.choice can return: those of positive probability.
age_group_choices == {idx \in 0..24 : age_group_mixing_weight(idx) > 0}

\* An if / elif chain whose fourth threshold is 1.088 / 1.168.
category_wide_fourth(u) ==
    IF u < 200 THEN 1
    ELSE IF u < 1000 THEN 2
    ELSE IF u < 1080 THEN 3
    ELSE IF u < 1088 THEN 4
    ELSE 5

\* The if / elif chain on prob of the formation loop.  The draw prob in
\* [0, 1) is kept as u = floor(prob * 1168) in 0..1167, so prob < t / 1.168
\* is u < 1000 * t.
category(u) ==
    IF u < 200 THEN 1
    ELSE IF u < 1000 THEN 2
    ELSE IF u < 1080 THEN 3
    ELSE IF u < 1160 THEN 4
    ELSE 5

categories == {category(u) : u \in 0..1167}

\* The male candidates with a steady branch that does not ask for singles.
male_candidates_steady_any(sys, c, y_group) ==
    IF c = 1
    THEN sys.straight_males \cap sys.age_group[y_group]
    ELSE IF c = 5
    THEN sys.straight_males \cap sys.singles \cap sys.age_group[y_group]
    ELSE IF c = 2 \/ c = 4
    THEN sys.straight_males \cap sys.high_sexual_activity \cap sys.age_group[y_group]
    ELSE (sys.straight_males \ sys.high_sexual_activity)
             \cap sys.singles \cap sys.age_group[y_group]

\* The candidate lists y (male) and x (female) and the type of each branch.
male_candidates(sys, c, y_group) ==
    IF c = 1 \/ c = 5
    THEN sys.straight_males \cap sys.singles \cap sys.age_group[y_group]
    ELSE IF c = 2 \/ c = 4
    THEN sys.straight_males \cap sys.high_sexual_activity \cap sys.age_group[y_group]
    ELSE (sys.straight_males \ sys.high_sexual_activity)
             \cap sys.singles \cap sys.age_group[y_group]

female_candidates(sys, c, x_group) ==
    IF c = 1 \/ c = 5
    THEN sys.females \cap sys.singles \cap sys.age_group[x_group]
    ELSE IF c = 2 \/ c = 3
    THEN sys.females \cap sys.high_sexual_activity \cap sys.age_group[x_group]
    ELSE (sys.females \ sys.high_sexual_activity)
             \cap sys.singles \cap sys.age_group[x_group]

category_type(c) == IF c = 1 THEN 1 ELSE 2

\* The body without `self.partnerships.append`.
form_partnership_not_appended(sys, partnership_type, x, y) ==
    LET s1 == PartnershipInit(sys, x, y)
    IN  IF s1.raised THEN s1
        ELSE [s1 EXCEPT
                 !.number_of_steady = IF partnership_type = 1 THEN @ + 1 ELSE @]

\* The body of `if x.identifier not in y.current_partners`: the Partnership
\* of female x and male y is created and appended.
form_partnership(sys, partnership_type, x, y) ==
    LET s1 == PartnershipInit(sys, x, y)
    IN  IF s1.raised THEN s1
        ELSE [s1 EXCEPT
                 !.partnerships = Append(@, Partnership(partnership_type, x, y)),
                 !.number_of_steady = IF partnership_type = 1 THEN @ + 1 ELSE @]

\* The forming samples without the test `x.identifier not in
\* y.current_partners`.
forming_samples_unguarded(sys) ==
    {q \in [idx : age_group_choices, c : categories,
            y : sys.straight_males, x : sys.females] :
        /\ q.y \in male_candidates(sys, q.c, q.idx % 5)
        /\ q.x \in female_candidates(sys, q.c, q.idx \div 5)}

\* The samples (age-group position, category, male, female) of one pass of
\* the while loop that end it.
forming_samples(sys) ==
    {q \in [idx : age_group_choices, c : categories,
            y : sys.straight_males, x : sys.females] :
        /\ q.y \in male_candidates(sys, q.c, q.idx % 5)
        /\ q.x \in female_candidates(sys, q.c, q.idx \div 5)
        /\ q.x \notin sys.persons[q.y].current_partners}

-----------------------------------------------------------------------------
\* A transmission loop without the test on time_since_infection.
infectious_at_once(sys, id) == sys.persons[id].disease_status > 0

\* The test with one day more than the incubation time.
infectious_a_day_later(sys, id) ==
    sys.persons[id].time_since_infection >
        (IF sys.persons[id].gender = 0 THEN sys.incubation_time_men
         ELSE sys.incubation_time_women) + 1

\* The test with `time_since_infection >= incubation time`.
infectious_at_incubation(sys, id) ==
    sys.persons[id].time_since_infection >=
        (IF sys.persons[id].gender = 0 THEN sys.incubation_time_men
         ELSE sys.incubation_time_women)

\* The test of the transmission loop on the infected partner: its
\* time_since_infection against the incubation time of its gender.
infectious(sys, id) ==
    sys.persons[id].time_since_infection >
        (IF sys.persons[id].gender = 0 THEN sys.incubation_time_men
         ELSE sys.incubation_time_women)

\* Disease transmission over one Partnership: the states it can leave.
transmit(sys, ps) ==
    LET p1 == ps.persons[1]
        p2 == ps.persons[2]
        s1 == sys.persons[p1].disease_status
        s2 == sys.persons[p2].disease_status
        infected == IF s1 > 0 /\ s2 = 0 THEN p1 ELSE p2
        non_infected == IF s1 > 0 /\ s2 = 0 THEN p2 ELSE p1
    IN  IF ~((s1 > 0 /\ s2 = 0) \/ (s1 = 0 /\ s2 > 0)) THEN {sys}
        ELSE IF ~infectious(sys, infected) THEN {sys}
        ELSE
        LET resistant == sys.persons[infected].disease_status > 2
            gi == sys.persons[infected].gender
            gn == sys.persons[non_infected].gender
            infect(a) ==
                IF a
                THEN IF resistant
                     THEN resistant_asymptomatic_infection(sys, non_infected)
                     ELSE asymptomatic_infection(sys, non_infected)
                ELSE IF resistant
                     THEN resistant_symptomatic_infection(sys, non_infected)
                     ELSE symptomatic_infection(sys, non_infected)
            outcomes(transmission, asymptomatic) ==
                {IF t THEN infect(a) ELSE sys :
                    t \in random_lt(transmission), a \in random_lt(asymptomatic)}
        IN  IF gi = 0 /\ gn = 1
            THEN IF ps.type = 1
                 THEN outcomes(sys.transmission_male_female_steady,
                               sys.asymptomatic_women)
                 ELSE IF ps.type = 2
                 THEN outcomes(sys.transmission_male_female_casual,
                               sys.asymptomatic_women)
                 ELSE {sys}
            ELSE IF gi = 1 /\ gn = 0
            THEN IF ps.type = 1
                 THEN outcomes(sys.transmission_female_male_steady,
                               sys.asymptomatic_men)
                 ELSE IF ps.type = 2
                 THEN outcomes(sys.transmission_female_male_casual,
                               sys.asymptomatic_men)
                 ELSE {sys}
            ELSE {sys}

\* The transmission loop over self.partnerships from list position j on.
RECURSIVE transmission(_, _)
transmission(sys, j) ==
    IF j > Len(sys.partnerships) THEN {sys}
    ELSE UNION {transmission(s1, j + 1) : s1 \in transmit(sys, sys.partnerships[j])}

\* Separation without `self.number_of_steady -= 1`.
separate_keeps_count(sys, j) ==
    LET ps == sys.partnerships[j]
        s1 == PartnershipRemove(sys, ps)
        s2 == IF s1.raised THEN s1 ELSE [s1 EXCEPT !.partnerships[j] = None]
    IN  IF ps.type = 1
        THEN {IF d THEN s2 ELSE sys : d \in random_lt(sys.sigma1)}
        ELSE IF ps.type = 2
        THEN {IF d THEN s2 ELSE sys : d \in random_lt(sys.sigma2)}
        ELSE {sys}

\* Separation of the Partnership at list position j.
separate(sys, j) ==
    LET ps == sys.partnerships[j]
        s1 == PartnershipRemove(sys, ps)
        s2 == IF s1.raised THEN s1 ELSE [s1 EXCEPT !.partnerships[j] = None]
    IN  IF ps.type = 1
        THEN {IF d
              THEN IF s2.raised THEN s2
                   ELSE [s2 EXCEPT !.number_of_steady = @ - 1]
              ELSE sys : d \in random_lt(sys.sigma1)}
        ELSE IF ps.type = 2
        THEN {IF d THEN s2 ELSE sys : d \in random_lt(sys.sigma2)}
        ELSE {sys}

\* The separation loop from list position j on, and the filter after it.
RECURSIVE separation(_, _)
separation(sys, j) ==
    IF sys.raised THEN {sys}
    ELSE IF j > Len(sys.partnerships)
    THEN {[sys EXCEPT !.partnerships = filter_none(@)]}
    ELSE UNION {separation(s1, j + 1) : s1 \in separate(sys, j)}

\* Recovery of one Person.
recover(sys, id) ==
    LET q == sys.persons[id]
        outcomes(rate) == {IF d THEN cure(sys, id) ELSE sys : d \in random_lt(rate)}
    IN  IF q.gender = 0 /\ q.disease_status \in {1, 3}
        THEN outcomes(sys.recovery_rate_symptomatic_men)
        ELSE IF q.gender = 0 /\ q.disease_status \in {2, 4}
        THEN outcomes(sys.recovery_rate_asymptomatic_men)
        ELSE IF q.gender = 1 /\ q.disease_status \in {1, 3}
        THEN outcomes(sys.recovery_rate_symptomatic_women)
        ELSE IF q.gender = 1 /\ q.disease_status \in {2, 4}
        THEN outcomes(sys.recovery_rate_asymptomatic_women)
        ELSE {sys}

\* The recovery loop over self.persons from identifier id on.
RECURSIVE recovery(_, _)
recovery(sys, id) ==
    IF sys.raised \/ id \notin Ids(sys) THEN {sys}
    ELSE UNION {recovery(s1, id + 1) : s1 \in recover(sys, id)}

\* A treatment test that takes every symptomatic Person.
treatable_symptomatic(sys, id) == sys.persons[id].disease_status \in {1, 3}

\* A treatment test that takes every non-resistant infection.
treatable_non_resistant(sys, id) == sys.persons[id].disease_status \in {1, 2}

\* The test of the treatment loop: symptomatic and non-resistant.
treatable(sys, id) == sys.persons[id].disease_status = 1

\* The test with `>` in place of `>=`.
treatment_due_a_day_later(sys, id) ==
    sys.persons[id].time_since_infection >
        (IF sys.persons[id].gender = 0
         THEN sys.incubation_time_men + sys.patient_delay_treatment_men
         ELSE sys.incubation_time_women + sys.patient_delay_treatment_women)

\* The test before p.cure in the treatment loop: time_since_infection
\* against incubation time plus patient delay of the gender.
treatment_due(sys, id) ==
    sys.persons[id].time_since_infection >=
        (IF sys.persons[id].gender = 0
         THEN sys.incubation_time_men + sys.patient_delay_treatment_men
         ELSE sys.incubation_time_women + sys.patient_delay_treatment_women)

\* Treatment of one Person.
treat(sys, id) ==
    LET q == sys.persons[id]
        asymptomatic == IF q.gender = 0 THEN sys.asymptomatic_men
                        ELSE sys.asymptomatic_women
        treated == IF q.gender \in {0, 1} /\ treatment_due(sys, id)
                   THEN cure(sys, id) ELSE sys
    IN  IF treatable(sys, id)
        THEN {IF r
              THEN IF a THEN resistant_asymptomatic_infection(sys, id)
                   ELSE resistant_symptomatic_infection(sys, id)
              ELSE treated :
                  r \in random_lt(sys.resistance_probability),
                  a \in random_lt(asymptomatic)}
        ELSE {sys}

\* The treatment loop over self.persons from identifier id on.
RECURSIVE treatment(_, _)
treatment(sys, id) ==
    IF sys.raised \/ id \notin Ids(sys) THEN {sys}
    ELSE UNION {treatment(s1, id + 1) : s1 \in treat(sys, id)}

\* Advance time for one Person: increase_time, then the promotion test.
advance(sys, id) ==
    LET s1 == increase_time(sys, id)
        q == s1.persons[id]
    IN  IF q.gender = 0 /\ q.time_since_infection > s1.incubation_time_men
        THEN symptomatic_infection(s1, id)
        ELSE IF q.gender = 1 /\ q.time_since_infection > s1.incubation_time_women
        THEN symptomatic_infection(s1, id)
        ELSE s1

\* The advance-time loop over self.persons from identifier id on.
RECURSIVE advance_time(_, _)
advance_time(sys, id) ==
    IF sys.raised \/ id \notin Ids(sys) THEN sys
    ELSE advance_time(advance(sys, id), id + 1)

-----------------------------------------------------------------------------
\* The draws of one pass of System.initialize.
Draw(male, age, days, high) ==
    [male |-> male, age |-> age, days |-> days, high |-> high]

\* set_constants called with rho = 1, sigma1 = sigma2 = 0, a male-to-female
\* steady transmission probability of 1, asymptomatic_women = 0 and an
\* incubation time of 0 days for both genders.
ForcedParameters ==
    [Parameters(2, 0, 0, 1, 1) EXCEPT
        !.rho = 100, !.sigma1 = 0, !.sigma2 = 0,
        !.transmission_male_female_steady = 100, !.asymptomatic_women = 0]

\* Populations of two under ForcedParameters: a male and a female, and two
\* males.
ForcedScenarios ==
    { [parameters |-> ForcedParameters,
       draws |-> << Draw(TRUE, 20, 0, FALSE), Draw(FALSE, 30, 100, FALSE) >>],
      [parameters |-> ForcedParameters,
       draws |-> << Draw(TRUE, 20, 0, FALSE), Draw(TRUE, 30, 100, FALSE) >>] }

\* set_constants called with values outside their range: a population of no
\* Persons, and a negative probability rho.
UnvalidatedScenarios ==
    { [parameters |-> Parameters(0, 0, 1, 1, 1), draws |-> << >>],
      [parameters |-> [Parameters(2, 0, 1, 1, 1) EXCEPT !.rho = -50],
       draws |-> << Draw(TRUE, 20, 0, FALSE), Draw(FALSE, 30, 100, FALSE) >>] }

\* The runs explored: a parameter set and the draws of System.initialize.
\* Ages and days are taken next to the birthdays at which increase_age and
\* replace_person act, so that they act within MaxTime days.
Scenarios ==
    { [parameters |-> Parameters(4, 0, 1, 1, 1),
       draws |-> << Draw(TRUE, 34, 364, TRUE), Draw(FALSE, 64, 364, FALSE),
                    Draw(FALSE, 24, 364, TRUE), Draw(TRUE, 64, 363, FALSE) >>],
      [parameters |-> Parameters(2, 0, 1, 1, 1),
       draws |-> << Draw(TRUE, 20, 0, FALSE), Draw(TRUE, 30, 100, TRUE) >>] }
    \cup ForcedScenarios \cup UnvalidatedScenarios

\* No call of network_model is running.
NoRun == [pc |-> "none"]

Init ==
    /\ \E sc \in Scenarios :
           s = initialize(set_constants(System, sc.parameters), sc.draws)
    /\ pc = "boundary"
    /\ n = 0
    /\ i = 0
    /\ formed = TRUE
    /\ p = 0
    /\ net = NoRun

\* The experiment driver seeds an initial infection: one of the four
\* infection methods of Person, called on a susceptible Person before the
\* first time_step.
Seed ==
    /\ pc = "boundary" /\ ~s.raised
    /\ s.time = 0
    /\ Cardinality(s.infected) < MaxSeeds
    /\ \E id \in Ids(s), kind \in 1..4 :
           /\ s.persons[id].disease_status = 0
           /\ s' = IF kind = 1 THEN symptomatic_infection(s, id)
                   ELSE IF kind = 2 THEN asymptomatic_infection(s, id)
                   ELSE IF kind = 3 THEN resistant_symptomatic_infection(s, id)
                   ELSE resistant_asymptomatic_infection(s, id)
    /\ UNCHANGED <<pc, n, i, formed, p>>
    /\ UNCHANGED net

\* A time_step whose separation block comes right after the formation loop.
after_slot_separation(done, slots) ==
    IF done >= slots THEN "separation" ELSE "formation"

\* The phase after the formation loop has finished slot number done - 1.
after_slot(done, slots) == IF done >= slots THEN "transmission" ELSE "formation"

\* A time_step whose n is int(len(self.persons)/2), whatever the number of
\* Partnerships.
TimeStepBegin_full_target ==
    /\ pc = "boundary" /\ ~s.raised
    /\ s.time < MaxTime
    /\ n' = Cardinality(Ids(s)) \div 2
    /\ i' = 0
    /\ formed' = TRUE
    /\ pc' = after_slot(0, n')
    /\ UNCHANGED <<s, p>>
    /\ UNCHANGED net

\* time_step is called: n is computed and the formation loop entered.
TimeStepBegin ==
    /\ pc = "boundary" /\ ~s.raised
    /\ s.time < MaxTime
    /\ n' = (Cardinality(Ids(s)) \div 2) - Len(s.partnerships)
    /\ i' = 0
    /\ formed' = TRUE
    /\ pc' = after_slot(0, n')
    /\ UNCHANGED <<s, p>>
    /\ UNCHANGED net

\* One pass of `for i in range(n)`: the draw against rho.
FormationDraw ==
    /\ pc = "formation" /\ formed /\ ~s.raised
    /\ \E d \in random_lt(s.rho) :
           IF d
           THEN formed' = FALSE /\ UNCHANGED <<i, pc>>
           ELSE i' = i + 1 /\ pc' = after_slot(i + 1, n) /\ UNCHANGED formed
    /\ UNCHANGED <<s, n, p>>
    /\ UNCHANGED net

\* One pass of `while not formed`: a sample that forms a Partnership ends
\* the loop, any other sample leaves everything as it is.
FormationAttempt ==
    /\ pc = "formation" /\ ~formed /\ ~s.raised
    /\ \/ \E q \in forming_samples(s) :
              /\ s' = form_partnership(s, category_type(q.c), q.x, q.y)
              /\ formed' = TRUE
              /\ i' = i + 1
              /\ pc' = after_slot(i + 1, n)
              /\ UNCHANGED <<n, p>>
       \/ /\ \E idx \in age_group_choices, c \in categories :
                 \/ male_candidates(s, c, idx % 5) = {}
                 \/ female_candidates(s, c, idx \div 5) = {}
                 \/ \E y \in male_candidates(s, c, idx % 5),
                       x \in female_candidates(s, c, idx \div 5) :
                        x \in s.persons[y].current_partners
          /\ UNCHANGED vars
    /\ UNCHANGED net

Transmission ==
    /\ pc = "transmission" /\ ~s.raised
    /\ s' \in transmission(s, 1)
    /\ pc' = "separation"
    /\ UNCHANGED <<n, i, formed, p>>
    /\ UNCHANGED net

Separation ==
    /\ pc = "separation" /\ ~s.raised
    /\ s' \in separation(s, 1)
    /\ pc' = "replacement"
    /\ p' = 0
    /\ UNCHANGED <<n, i, formed>>
    /\ UNCHANGED net

\* A replacement loop that tests `p.age > 65`.
to_replace_older(sys, from) ==
    {id \in Ids(sys) : id >= from /\ sys.persons[id].age > ReplacementAge}

\* The Persons the replacement loop has still to replace.
to_replace(sys, from) ==
    {id \in Ids(sys) : id >= from /\ sys.persons[id].age = ReplacementAge}

\* The replacement loop up to and including its next call of replace_person,
\* or to its end.
Replacement ==
    /\ pc = "replacement" /\ ~s.raised
    /\ IF to_replace(s, p) = {}
       THEN /\ pc' = "recovery"
            /\ p' = 0
            /\ UNCHANGED s
       ELSE LET id == CHOOSE x \in to_replace(s, p) :
                          \A z \in to_replace(s, p) : x <= z
            IN  /\ \E high \in random_lt(s.sexual_activity_high) :
                       s' = replace_person(s, id, high)
                /\ p' = id + 1
                /\ UNCHANGED pc
    /\ UNCHANGED <<n, i, formed>>
    /\ UNCHANGED net

Recovery ==
    /\ pc = "recovery" /\ ~s.raised
    /\ s' \in recovery(s, 0)
    /\ pc' = "treatment"
    /\ UNCHANGED <<n, i, formed, p>>
    /\ UNCHANGED net

Treatment ==
    /\ pc = "treatment" /\ ~s.raised
    /\ s' \in treatment(s, 0)
    /\ pc' = "advance"
    /\ UNCHANGED <<n, i, formed, p>>
    /\ UNCHANGED net

\* Advance time; time_step returns and its locals are gone.
AdvanceTime ==
    /\ pc = "advance" /\ ~s.raised
    /\ s' = advance_time([s EXCEPT !.time = @ + 1], 0)
    /\ pc' = "boundary"
    /\ n' = 0
    /\ i' = 0
    /\ UNCHANGED <<formed, p>>
    /\ UNCHANGED net

\* Person.remove_partner is called between two days on a Person, with a
\* Person that is not among its current partners.
RemovePartnerCall ==
    /\ pc = "boundary" /\ ~s.raised
    /\ \E id \in Ids(s), other \in Ids(s) :
           /\ other \notin s.persons[id].current_partners
           /\ s' = remove_partner(s, id, other)
    /\ UNCHANGED <<pc, n, i, formed, p>>
    /\ UNCHANGED net

Next ==
    \/ Seed
    \/ TimeStepBegin
    \/ FormationDraw
    \/ FormationAttempt
    \/ Transmission
    \/ Separation
    \/ Replacement
    \/ Recovery
    \/ Treatment
    \/ AdvanceTime

Spec == Init /\ [][Next]_vars

\* The runs in which remove_partner is also called from outside time_step.
NextWithCalls == Next \/ RemovePartnerCall

SpecWithCalls == Init /\ [][NextWithCalls]_vars

-----------------------------------------------------------------------------
(***************************************************************************)
(* network_model of Code/network_model.py.  The run is the record net:     *)
(* graph is the adjacency of the graph (node -> set of neighbours), data   *)
(* the Individual of each node (graph.node[i]["Data"]), infected and       *)
(* infected_copy the two sets of the function, the latter reduced to the   *)
(* nodes the loop `for i in infected_copy` has still to visit, t the loop  *)
(* variable and num_res, num_infected the two arrays, filled up to t.      *)
(***************************************************************************)

\* Individual.__init__
Individual == [disease_status |-> 0, time_since_infection |-> -1]

\* Outcomes of `np.random.rand() < a * b`, a and b in percent.
rand_lt_product(a, b) ==
    IF a * b <= 0 THEN {FALSE} ELSE IF a * b >= 100 * 100 THEN {TRUE} ELSE BOOLEAN

\* The graphs explored: a path and a triangle of three nodes.
Graphs ==
    { [v \in 0..2 |-> IF v = 1 THEN {0, 2} ELSE {1}],
      [v \in 0..2 |-> (0..2) \ {v}] }

\* The arguments beta, tau, nu, mu: every comparison can go either way.
NetworkParameters == [beta |-> 50, tau |-> 50, nu |-> 50, mu |-> 50]

\* network_model up to its time loop: the initialization of the infected.
network_model_enter(graph, data, init, doInit, c, num_steps) ==
    LET data1 == IF doInit
                 THEN [v \in DOMAIN graph |->
                          [data[v] EXCEPT !.disease_status =
                               IF v \in init THEN 1 ELSE 0]]
                 ELSE data
        infected == IF doInit THEN init
                    ELSE {v \in DOMAIN graph : data[v].disease_status # 0}
    IN  [pc |-> "step", graph |-> graph, data |-> data1,
         infected |-> infected, infected_copy |-> {},
         t |-> 0, num_steps |-> num_steps,
         num_res |-> << >>, num_infected |-> << >>,
         raised |-> FALSE] @@ c

\* A treatment test that takes every infected node.
treatable_node_any(nt, v) == nt.data[v].disease_status # 0

\* The test of the two treatment branches: the sensitive strain.
treatable_node(nt, v) == nt.data[v].disease_status = 1

\* `disease_status = 0; infected.remove(i)`
node_cured(nt, v) ==
    IF v \notin nt.infected
    THEN [nt EXCEPT !.data[v].disease_status = 0, !.raised = TRUE]
    ELSE [nt EXCEPT !.data[v].disease_status = 0, !.infected = @ \ {v}]

\* The if / elif / elif chain on node v: r, c and m are the outcomes of the
\* comparisons with nu, tau*(1-mu) and tau*mu.
node_chain(nt, v, r, c, m) ==
    IF r THEN node_cured(nt, v)
    ELSE IF treatable_node(nt, v) /\ c THEN node_cured(nt, v)
    ELSE IF treatable_node(nt, v) /\ m
    THEN [nt EXCEPT !.data[v].disease_status = 2]
    ELSE nt

\* The larger of two disease statuses.
highest_disease(a, b) == IF a >= b THEN a ELSE b

\* The neighbours of v that the spreading loop can infect.
susceptible_neighbors(nt, v) ==
    {u \in nt.graph[v] : nt.data[u].disease_status = 0}

\* The sets of neighbours for which the comparison with beta succeeds.
spread_targets(nt, v) ==
    IF nt.beta <= 0 THEN {{}}
    ELSE IF nt.beta >= 100 THEN {susceptible_neighbors(nt, v)}
    ELSE SUBSET susceptible_neighbors(nt, v)

\* The spreading loop of node v, infecting the neighbours in targets.
node_spread(nt, v, targets) ==
    IF nt.data[v].disease_status = 0 \/ targets = {} THEN nt
    ELSE [nt EXCEPT
             !.data = [u \in DOMAIN nt.data |->
                          IF u \in targets \cup {v}
                          THEN [nt.data[u] EXCEPT !.disease_status =
                                   highest_disease(nt.data[v].disease_status,
                                                   nt.data[u].disease_status)]
                          ELSE nt.data[u]],
             !.infected = @ \cup {v} \cup targets]

\* One pass of `for i in infected_copy` for node v.
visit(nt, v, r, c, m, targets) ==
    LET n1 == node_chain(nt, v, r, c, m)
    IN  IF n1.raised THEN n1 ELSE node_spread(n1, v, targets)

\* A call of network_model: with doInit on a set init of nodes, or without
\* it on a graph whose Individuals carry the statuses of an earlier run.
InitNetwork ==
    /\ \E graph \in Graphs :
           \/ \E init \in SUBSET DOMAIN graph :
                  net = network_model_enter(graph,
                            [v \in DOMAIN graph |-> Individual], init, TRUE,
                            NetworkParameters, MaxSteps)
           \/ \E status0 \in [DOMAIN graph -> 0..2] :
                  net = network_model_enter(graph,
                            [v \in DOMAIN graph |->
                                [Individual EXCEPT !.disease_status = status0[v]]],
                            {}, FALSE, NetworkParameters, MaxSteps)
    /\ s = System
    /\ pc = "boundary"
    /\ n = 0
    /\ i = 0
    /\ formed = TRUE
    /\ p = 0

\* `for t in range(num_steps)`: a pass begins with the copy of infected.
NetworkStepBegin ==
    /\ net.pc = "step" /\ ~net.raised
    /\ net.t < net.num_steps
    /\ net' = [net EXCEPT !.infected_copy = net.infected, !.pc = "visit"]
    /\ UNCHANGED <<s, pc, n, i, formed, p>>

\* One pass of `for i in infected_copy`; a set is iterated in any order.
NetworkVisit ==
    /\ net.pc = "visit" /\ ~net.raised
    /\ \E v \in net.infected_copy :
           \E r \in random_lt(net.nu),
              c \in rand_lt_product(net.tau, 100 - net.mu),
              m \in rand_lt_product(net.tau, net.mu),
              targets \in spread_targets(net, v) :
               net' = [visit(net, v, r, c, m, targets) EXCEPT
                          !.infected_copy = @ \ {v}]
    /\ UNCHANGED <<s, pc, n, i, formed, p>>

\* The end of a pass of the time loop: the two arrays are filled at t.
NetworkRecord ==
    /\ net.pc = "visit" /\ ~net.raised
    /\ net.infected_copy = {}
    /\ LET tot == Cardinality({v \in net.infected : net.data[v].disease_status = 2})
       IN  net' = [net EXCEPT !.num_res = Append(@, tot),
                              !.num_infected = Append(@, Cardinality(net.infected)),
                              !.t = @ + 1,
                              !.pc = "step"]
    /\ UNCHANGED <<s, pc, n, i, formed, p>>

NextNetwork ==
    \/ NetworkStepBegin
    \/ NetworkVisit
    \/ NetworkRecord

SpecNetwork == InitNetwork /\ [][NextNetwork]_vars

-----------------------------------------------------------------------------
\* Shorthands of the properties below.
status(id) == s.persons[id].disease_status

boundary == pc = "boundary"

incubation_time(sys, id) ==
    IF sys.persons[id].gender = 0 THEN sys.incubation_time_men
    ELSE sys.incubation_time_women

\* C1: at every day boundary the infected set is exactly the set of
\* individuals that are not susceptible, and the resistant set exactly the
\* set of individuals in a resistant state (3 or 4).
C1_InfectedResistantSets ==
    boundary =>
        /\ s.infected = {id \in Ids(s) : status(id) # 0}
        /\ s.resistant = {id \in Ids(s) : status(id) \in {3, 4}}

\* C1 witness: a day boundary after a time_step with a resistant and a
\* sensitive infected individual.
C1_Witness ==
    /\ boundary /\ s.time > 0
    /\ s.resistant # {}
    /\ s.infected \ s.resistant # {}

\* C2: at every day boundary each of the four counters equals the number of
\* individuals in its disease state, so the four sum to |infected|.
C2_CountersMatchStates ==
    boundary =>
        /\ s.number_of_symptomatic = Cardinality({id \in Ids(s) : status(id) = 1})
        /\ s.number_of_asymptomatic = Cardinality({id \in Ids(s) : status(id) = 2})
        /\ s.number_of_res_symp = Cardinality({id \in Ids(s) : status(id) = 3})
        /\ s.number_of_res_asymp = Cardinality({id \in Ids(s) : status(id) = 4})
        /\ s.number_of_symptomatic + s.number_of_asymptomatic
               + s.number_of_res_symp + s.number_of_res_asymp
           = Cardinality(s.infected)

\* C2 witness: a day boundary after a time_step at which a resistant
\* counter and a sensitive counter are both positive.
C2_Witness ==
    /\ boundary /\ s.time > 0
    /\ s.number_of_res_symp + s.number_of_res_asymp > 0
    /\ s.number_of_symptomatic + s.number_of_asymptomatic > 0

\* The asymptomatic-sensitive individuals past their incubation period.
past_incubation ==
    {id \in Ids(s) : status(id) = 2
        /\ s.persons[id].time_since_infection > incubation_time(s, id)}

\* C3: the clock-advance phase promotes every asymptomatic-sensitive
\* individual whose time-since-infection exceeds its incubation period to
\* symptomatic-sensitive, the symptomatic counter going up and the
\* asymptomatic counter down by one for each.
C3_AsymptomaticPromoted ==
    [][pc = "advance" =>
          /\ \A id \in past_incubation : s'.persons[id].disease_status = 1
          /\ s'.number_of_symptomatic
                 = s.number_of_symptomatic + Cardinality(past_incubation)
          /\ s'.number_of_asymptomatic
                 = s.number_of_asymptomatic - Cardinality(past_incubation)]_vars

\* C4 as claimed: the formation, transmission and separation phases never
\* operate on a population that contains an individual of age 65.
C4_NoAge65BeforeReplacement ==
    pc \in {"formation", "transmission", "separation"} =>
        \A id \in Ids(s) : s.persons[id].age # ReplacementAge

\* C4 as amended: an individual of age 65 is replaced in the replacement
\* phase, so the phases after it (recovery, treatment, advance time) never
\* operate on a population that contains an individual of age 65.
C4_NoAge65AfterReplacement ==
    pc \in {"recovery", "treatment", "advance"} =>
        \A id \in Ids(s) : s.persons[id].age # ReplacementAge

\* C4 witness: the recovery phase is about to run on a day on which an
\* individual was replaced (age 15 on day 0 after the first day can only
\* come from replace_person).
C4_Witness ==
    /\ pc = "recovery" /\ s.time > 0
    /\ \E id \in Ids(s) : s.persons[id].age = 15 /\ s.persons[id].days = 0

\* The state of individual id right after its replacement.
replaced(sys, id) ==
    /\ ~sys.raised
    /\ sys.persons[id].age = 15
    /\ sys.persons[id].days = 0
    /\ sys.persons[id].disease_status = 0
    /\ sys.persons[id].time_since_infection = -1
    /\ sys.persons[id].current_partners = {}
    /\ sys.persons[id].number_of_partners = 0
    /\ id \in sys.singles
    /\ \A g \in 0..4 : id \in sys.age_group[g] <=> g = 0
    /\ \A j \in 1..Len(sys.partnerships) :
           id \notin {sys.partnerships[j].persons[1], sys.partnerships[j].persons[2]}
    /\ \A other \in Ids(sys) : id \notin sys.persons[other].current_partners

\* C5: replace_person applied to an individual of age 65 in the replacement
\* phase leaves it with age 15, day 0, susceptible, without partners, single
\* and in the youngest age group only, referenced by no Partnership and by
\* no other individual's partner set.
C5_ReplacePersonResets ==
    pc = "replacement" =>
        \A id \in to_replace(s, p), high \in random_lt(s.sexual_activity_high) :
            replaced(replace_person(s, id, high), id)

\* C5 witness: the replacement phase reaches an infected individual of age
\* 65 that is in a Partnership, and replace_person dissolves it.
C5_Witness ==
    /\ pc = "replacement"
    /\ \E id \in to_replace(s, p) :
           /\ status(id) > 0
           /\ s.persons[id].current_partners # {}
           /\ replaced(replace_person(s, id, TRUE), id)
           /\ Len(replace_person(s, id, TRUE).partnerships) < Len(s.partnerships)

\* C6: at every day boundary the partner count of every individual is the
\* size of its partner set, the singles are exactly the individuals with
\* partner count 0, and number_of_singles is the size of the singles set.
C6_PartnerCountsAndSingles ==
    boundary =>
        /\ \A id \in Ids(s) : s.persons[id].number_of_partners
                                  = Cardinality(s.persons[id].current_partners)
        /\ s.singles = {id \in Ids(s) : s.persons[id].number_of_partners = 0}
        /\ s.number_of_singles = Cardinality(s.singles)

\* C6 witness: a day boundary after two days of formation, separation and
\* replacement with an individual that has two partners and a single.
C6_Witness ==
    /\ boundary /\ s.time > 1
    /\ \E id \in Ids(s) : s.persons[id].number_of_partners = 2
    /\ s.singles # {}

\* C7 as claimed: at every day boundary |singles| + 2 |partnerships| is the
\* population size.
C7_SinglesAndPairsCoverPopulation ==
    boundary =>
        Cardinality(s.singles) + 2 * Len(s.partnerships) = Cardinality(Ids(s))

\* C7 as amended: at every day boundary |singles| + 2 |partnerships| is at
\* least the population size, and equal to it exactly when no individual
\* has more than one partner.
C7_SinglesAndPairsAtLeastPopulation ==
    boundary =>
        /\ Cardinality(s.singles) + 2 * Len(s.partnerships) >= Cardinality(Ids(s))
        /\ Cardinality(s.singles) + 2 * Len(s.partnerships) = Cardinality(Ids(s))
               <=> \A id \in Ids(s) : s.persons[id].number_of_partners <= 1

\* C7 witness: a day boundary at which an individual holds two concurrent
\* partnerships, so that the sum exceeds the population size.
C7_Witness ==
    /\ boundary
    /\ \E id \in Ids(s) : s.persons[id].number_of_partners > 1
    /\ Cardinality(s.singles) + 2 * Len(s.partnerships) > Cardinality(Ids(s))

\* The number of active Partnerships between a and b.
partnerships_between(a, b) ==
    Cardinality({j \in 1..Len(s.partnerships) :
                    {s.partnerships[j].persons[1], s.partnerships[j].persons[2]}
                        = {a, b}})

\* C8: at every day boundary, for all individuals a and b, b is in a's
\* partner set iff a is in b's partner set iff the active list holds exactly
\* one Partnership between a and b; no pair holds two, and no Partnership
\* joins an individual to itself.
C8_PartnershipsAgree ==
    boundary =>
        /\ \A a, b \in Ids(s) :
               /\ b \in s.persons[a].current_partners
                      <=> a \in s.persons[b].current_partners
               /\ b \in s.persons[a].current_partners
                      <=> partnerships_between(a, b) = 1
               /\ partnerships_between(a, b) <= 1
        /\ \A j \in 1..Len(s.partnerships) :
               s.partnerships[j].persons[1] # s.partnerships[j].persons[2]

\* C8 witness: a day boundary with two active Partnerships that share an
\* individual, which a further formation attempt could sample again.
C8_Witness ==
    /\ boundary /\ s.time > 0
    /\ Len(s.partnerships) = 2
    /\ \E id \in Ids(s) : Cardinality(s.persons[id].current_partners) = 2

\* The individuals whose age lies in lo..hi.
aged(lo, hi) == {id \in Ids(s) : lo <= s.persons[id].age /\ s.persons[id].age <= hi}

\* C9 as claimed: at every day boundary bucket k holds exactly the
\* individuals of age 15+10k .. 24+10k, and every individual is in exactly
\* one bucket.
C9_AgeGroupsExact ==
    boundary =>
        /\ \A k \in 0..4 : s.age_group[k] = aged(15 + 10 * k, 24 + 10 * k)
        /\ \A id \in Ids(s) : Cardinality({k \in 0..4 : id \in s.age_group[k]}) = 1

\* C9 as amended: at every day boundary buckets 0..3 hold exactly the
\* individuals of age 15+10k .. 24+10k and bucket 4 those of age 55 .. 65
\* (an individual that turned 65 stays there until it is replaced), and
\* every individual is in exactly one bucket.
C9_AgeGroupsExactUpTo65 ==
    boundary =>
        /\ \A k \in 0..3 : s.age_group[k] = aged(15 + 10 * k, 24 + 10 * k)
        /\ s.age_group[4] = aged(55, ReplacementAge)
        /\ \A id \in Ids(s) : Cardinality({k \in 0..4 : id \in s.age_group[k]}) = 1

\* C9 witness: a day boundary with an individual of age 65 in the oldest
\* bucket and an individual that has just moved up a bucket.
C9_Witness ==
    /\ boundary
    /\ \E id \in s.age_group[4] : s.persons[id].age = ReplacementAge
    /\ \E id \in Ids(s) : s.persons[id].age % 10 = 5 /\ s.persons[id].days = 0
                              /\ s.persons[id].age < ReplacementAge

\* C10: a formation attempt never hangs: whenever the `while not formed`
\* loop is running, it has a way out, so that time_step terminates.  The
\* code bounds no retries and has no abandonment, so the only way out is a
\* sample that forms a Partnership.
C10_FormationLoopCanExit ==
    (pc = "formation" /\ ~formed) => forming_samples(s) # {}

\* The successions of phases within time_step, and from one call to the next.
\* The formation loop is empty when n is zero or negative.
PhaseOrder ==
    { <<"boundary", "formation">>, <<"boundary", "transmission">>,
      <<"formation", "transmission">>, <<"transmission", "separation">>,
      <<"separation", "replacement">>, <<"replacement", "recovery">>,
      <<"recovery", "treatment">>, <<"treatment", "advance">>,
      <<"advance", "boundary">> }

\* C11: within each day step the phases run strictly in the order
\* formation, transmission, separation, replacement, recovery, treatment,
\* clock advance, each one finished before the next begins: control passes
\* from a phase only to the phase that follows it in this order, and the
\* clock advances only in the last one.
C11_PhasesInOrder ==
    [][/\ pc' # pc => <<pc, pc'>> \in PhaseOrder
       /\ s'.time # s.time => pc = "advance"]_vars

\* C11 witness: the end of the treatment phase of a day that began without
\* any Partnership, where an individual infected this day (its
\* time-since-infection is 0, on a day after the seeding) by its partner, an
\* individual with a non-resistant infection and the only other infected
\* one, is resistant: the Partnership was formed and transmitted over on the
\* same day, and the treatment phase of that day converted the new infection.
C11_Witness ==
    /\ pc = "advance" /\ s.time >= 1
    /\ n = Cardinality(Ids(s)) \div 2
    /\ Cardinality(s.infected) = 2
    /\ \E id \in s.resistant, other \in s.infected :
           /\ s.persons[id].time_since_infection = 0
           /\ status(other) \in {1, 2}
           /\ other \in s.persons[id].current_partners

\* C12: curing a susceptible individual changes nothing (disease state,
\* time-since-infection, infected and resistant sets, the four counters),
\* and curing an individual twice leaves what curing it once leaves,
\* whatever its disease state.
C12_CureIdempotent ==
    \A id \in Ids(s) :
        /\ status(id) = 0 => cure(s, id) = s
        /\ cure(cure(s, id), id) = cure(s, id)

\* C12 witness: a state with a susceptible individual and a resistant one
\* whose cure changes the sets and counters, and changes nothing when
\* applied again.
C12_Witness ==
    /\ ~s.raised
    /\ \E id \in Ids(s) : status(id) = 0
    /\ \E id \in s.resistant :
           /\ cure(s, id).infected # s.infected
           /\ cure(s, id).resistant # s.resistant
           /\ cure(cure(s, id), id) = cure(s, id)

\* The probabilities among the parameters of a System, in percent.
probabilities(sys) ==
    { sys.rho, sys.sigma1, sys.sigma2, sys.gender_ratio,
      sys.transmission_male_female_steady, sys.transmission_female_male_steady,
      sys.transmission_male_female_casual, sys.transmission_female_male_casual,
      sys.asymptomatic_men, sys.asymptomatic_women,
      sys.recovery_rate_asymptomatic_men, sys.recovery_rate_symptomatic_men,
      sys.recovery_rate_asymptomatic_women, sys.recovery_rate_symptomatic_women,
      sys.sexual_activity_high, sys.resistance_probability }

\* A configuration with a population size below one or a probability
\* outside [0, 1].
invalid_configuration(sys) ==
    \/ sys.number_of_persons <= 0
    \/ \E prob \in probabilities(sys) : prob < 0 \/ prob > 100

\* C14: an invalid configuration (a negative probability, a population size
\* of zero) is rejected with an error before the simulation starts: a System
\* that holds such a configuration has raised, and it has not been silently
\* accepted by set_constants and initialize.
C14_InvalidConfigurationRejected ==
    invalid_configuration(s) => s.raised

\* A population of 2 with rho = 1 and sigma1 = sigma2 = 0.
forced_pair(sys) ==
    /\ sys.number_of_persons = 2
    /\ sys.rho >= 100 /\ sys.sigma1 <= 0 /\ sys.sigma2 <= 0

\* C15: for a population of 2 with rho = 1 and sigma1 = sigma2 = 0, exactly
\* one Partnership exists after one day step.
C15_OnePartnershipAfterOneDay ==
    (forced_pair(s) /\ boundary /\ s.time = 1) => Len(s.partnerships) = 1

\* C15 witness: the day boundary after the first day step of such a
\* population, with its one Partnership.
C15_Witness ==
    /\ forced_pair(s) /\ boundary /\ s.time = 1
    /\ Len(s.partnerships) = 1
    /\ s.singles = {}

\* Two individuals, a male-to-female steady transmission probability of 1, an
\* asymptomatic probability of 0 for women and an incubation time of 0 days.
certain_transmission(sys) ==
    /\ Cardinality(Ids(sys)) = 2
    /\ sys.transmission_male_female_steady >= 100
    /\ sys.asymptomatic_women <= 0
    /\ sys.incubation_time_men = 0

\* The pairs <<female, male>> of a steady Partnership of a susceptible
\* female and a symptomatic-resistant male.
resistant_male_pairs ==
    { ps.persons : ps \in
        { s.partnerships[j] : j \in 1..Len(s.partnerships) } \cap
        { ps \in [type : {1}, persons : Ids(s) \X Ids(s)] :
            /\ s.persons[ps.persons[1]].gender = 1
            /\ s.persons[ps.persons[2]].gender = 0
            /\ status(ps.persons[1]) = 0
            /\ status(ps.persons[2]) = 3 } }

\* C16 as claimed: with one symptomatic-resistant male in a steady
\* Partnership with a susceptible female, transmission probability 1,
\* asymptomatic probability 0 and incubation period 0, the transmission
\* phase of the day step leaves the female symptomatic-resistant and in the
\* resistant set.
C16_FemaleBecomesResistant ==
    [][(pc = "transmission" /\ certain_transmission(s)) =>
          \A fm \in resistant_male_pairs :
              /\ s'.persons[fm[1]].disease_status = 3
              /\ fm[1] \in s'.resistant]_vars

\* C16 as amended: the same, for a male whose time-since-infection is at
\* least 1, that is, strictly above the incubation period 0.
C16_FemaleBecomesResistantPastIncubation ==
    [][(pc = "transmission" /\ certain_transmission(s)) =>
          \A fm \in resistant_male_pairs :
              s.persons[fm[2]].time_since_infection >= 1 =>
                  /\ s'.persons[fm[1]].disease_status = 3
                  /\ fm[1] \in s'.resistant]_vars

\* C16 witness: the end of the transmission phase of the second day, with a
\* symptomatic-resistant male infected for a day and, in a steady
\* Partnership with him, a symptomatic-resistant female infected this day.
C16_Witness ==
    /\ pc = "separation" /\ certain_transmission(s) /\ s.time = 1
    /\ \E j \in 1..Len(s.partnerships) :
           LET f == s.partnerships[j].persons[1]
               m == s.partnerships[j].persons[2]
           IN  /\ s.partnerships[j].type = 1
               /\ status(m) = 3 /\ s.persons[m].time_since_infection = 1
               /\ status(f) = 3 /\ s.persons[f].time_since_infection = 0
               /\ f \in s.resistant

\* Exactly one partner of Partnership ps is infected, and the
\* time-since-infection of that partner strictly exceeds the incubation
\* period of its sex.
can_transmit(sys, ps) ==
    \E src \in {ps.persons[1], ps.persons[2]},
       dst \in {ps.persons[1], ps.persons[2]} :
        /\ sys.persons[src].disease_status > 0
        /\ sys.persons[dst].disease_status = 0
        /\ sys.persons[src].time_since_infection > incubation_time(sys, src)

C18_TreatmentOnlySymptomaticSensitive ==
    [][/\ pc = "treatment" =>
            /\ \A id \in Ids(s) :
                   status(id) # 1 =>
                       /\ s'.persons[id] = s.persons[id]
                       /\ id \in s'.infected <=> id \in s.infected
                       /\ id \in s'.resistant <=> id \in s.resistant
            /\ s'.number_of_asymptomatic = s.number_of_asymptomatic
            /\ s'.number_of_res_symp >= s.number_of_res_symp
            /\ s'.number_of_res_asymp >= s.number_of_res_asymp
       /\ \A id \in Ids(s) :
              (status(id) \in {3, 4} /\ s'.persons[id].disease_status \notin {3, 4})
                  => pc \in {"recovery", "replacement"}]_vars

\* C18 witness: the end of a treatment phase that converted an individual
\* infected this day, next to an asymptomatic-sensitive individual infected
\* earlier, which the phase left alone.
C18_Witness ==
    /\ pc = "advance" /\ s.time >= 1
    /\ s.number_of_symptomatic = 0
    /\ \E id \in Ids(s) : status(id) = 2 /\ s.persons[id].time_since_infection >= 1
    /\ \E id \in s.resistant : s.persons[id].time_since_infection = 0

\* C19: resistant conversion is applied only to a susceptible individual, in
\* the transmission phase and with a resistant partner (or by the seeding of
\* the driver), and to a symptomatic-sensitive individual, in the treatment
\* phase.  An asymptomatic-sensitive individual never moves to a resistant
\* state, and a resistant individual is never converted again: the resistant
\* counters go up only by the individuals that enter the resistant set.
C19_ResistantConversionSources ==
    [][/\ \A id \in Ids(s) :
              (s'.persons[id].disease_status \in {3, 4}
                   /\ s'.persons[id].disease_status # status(id)) =>
                  \/ /\ status(id) = 0 /\ pc = "transmission"
                     /\ \E other \in s.persons[id].current_partners :
                            status(other) \in {3, 4}
                  \/ status(id) = 0 /\ pc = "boundary"
                  \/ status(id) = 1 /\ pc = "treatment"
       /\ (s'.number_of_res_symp + s'.number_of_res_asymp)
              - (s.number_of_res_symp + s.number_of_res_asymp)
                  <= Cardinality(s'.resistant \ s.resistant)]_vars

\* C19 witness: the end of a transmission phase in which a resistant
\* individual, infected for a day or more, has infected a partner with the
\* resistant strain.
C19_Witness ==
    /\ pc = "separation" /\ s.time >= 1
    /\ \E id \in s.resistant, other \in s.resistant :
           /\ s.persons[id].time_since_infection = 0
           /\ s.persons[other].time_since_infection >= 1
           /\ other \in s.persons[id].current_partners

\* C20: the number of active Partnerships never exceeds floor(N/2).  While
\* the formation loop runs, the Partnerships and the slots still to try
\* together stay within floor(N/2), and the loop is not entered when the
\* number of slots is zero or negative; a step that adds to the list of
\* Partnerships is a formation slot that adds exactly one.
C20_PartnershipsBounded ==
    /\ [](/\ Len(s.partnerships) <= Cardinality(Ids(s)) \div 2
          /\ pc = "formation" =>
                 /\ i < n
                 /\ Len(s.partnerships) + (n - i) <= Cardinality(Ids(s)) \div 2)
    /\ [][Len(s'.partnerships) > Len(s.partnerships) =>
              /\ pc = "formation"
              /\ Len(s'.partnerships) = Len(s.partnerships) + 1
              /\ i' = i + 1]_vars

\* C20 witness: a day of a population of four that began with two
\* Partnerships, so that no formation slot was tried.
C20_Witness ==
    /\ pc = "transmission" /\ s.time >= 1
    /\ n = 0
    /\ Cardinality(Ids(s)) = 4
    /\ Len(s.partnerships) = 2

\* The positions of the steady Partnerships in the list.
steady_positions ==
    {j \in 1..Len(s.partnerships) : s.partnerships[j].type = 1}

\* C21: at every day boundary the steady-partnership counter equals the
\* number of Partnerships of type steady in the active list.
C21_SteadyCounter ==
    boundary => s.number_of_steady = Cardinality(steady_positions)

\* C21 witness: the day boundary after two days of formation, separation
\* and replacement, with a replaced individual that is single and a steady
\* and a casual Partnership in the list.
C21_Witness ==
    /\ boundary /\ s.time = 2
    /\ s.number_of_steady = 1
    /\ Len(s.partnerships) = 2
    /\ \E id \in s.singles : s.persons[id].age = 15

\* The individuals whose activity level is high.
high_activity == {id \in Ids(s) : s.persons[id].sexual_activity = 1}

\* C22: at every day boundary the high-activity set is exactly the set of
\* individuals whose activity level is high, and each of them is younger
\* than 35; an activity level goes from low to high only in replace_person.
C22_HighActivity ==
    /\ [](boundary =>
             /\ s.high_sexual_activity = high_activity
             /\ \A id \in high_activity : s.persons[id].age < LowActivityAge)
    /\ [][\A id \in Ids(s) :
              (s.persons[id].sexual_activity = 0
                   /\ s'.persons[id].sexual_activity = 1) =>
                  /\ pc = "replacement"
                  /\ s.persons[id].age = ReplacementAge
                  /\ s'.persons[id].age = 15]_vars

\* C22 witness: a day boundary with an individual of low activity that had
\* its 35th birthday a day before and a replaced individual of high activity.
C22_Witness ==
    /\ boundary
    /\ \E id \in Ids(s) :
           /\ s.persons[id].age = LowActivityAge /\ s.persons[id].days = 1
           /\ id \notin s.high_sexual_activity
    /\ \E id \in s.high_sexual_activity :
           s.persons[id].age = 15 /\ s.persons[id].days = 1

\* C23: at every day boundary an individual is susceptible iff its
\* time-since-infection is -1, and an infected individual has a
\* time-since-infection of 0 or more; the clock-advance phase adds exactly 1
\* to the time-since-infection of an infected individual and leaves that of
\* a susceptible one at -1.
C23_TimeSinceInfection ==
    /\ [](boundary =>
             \A id \in Ids(s) :
                 /\ status(id) = 0 <=> s.persons[id].time_since_infection = -1
                 /\ status(id) > 0 => s.persons[id].time_since_infection >= 0)
    /\ [][pc = "advance" =>
              \A id \in Ids(s) :
                  s'.persons[id].time_since_infection =
                      IF status(id) > 0
                      THEN s.persons[id].time_since_infection + 1
                      ELSE -1]_vars

\* C23 witness: the day boundary after two days with an individual infected
\* for two days, one infected on the second day and a susceptible one.
C23_Witness ==
    /\ boundary /\ s.time = 2
    /\ \E id \in s.infected : s.persons[id].time_since_infection = 2
    /\ \E id \in s.infected : s.persons[id].time_since_infection = 1
    /\ \E id \in Ids(s) : status(id) = 0 /\ s.persons[id].time_since_infection = -1

\* The list position of the age-group pair (j, k), j and k in 1..5.
mixing_position(j, k) == (j - 1) * 5 + (k - 1)

\* The distance of two age groups.
group_distance(j, k) == IF j >= k THEN j - k ELSE k - j

\* C24: whenever the formation loop draws an age-group pair, the table it
\* draws from gives the pair (j, k) the unnormalized weight 1 when j = k and
\* 0.2^|j-k| otherwise (here scaled by 5^5), so that the weight of (j, k) is
\* that of (k, j).
C24_MixingWeightSymmetric ==
    (pc = "formation" /\ ~formed) =>
        \A j \in 1..5, k \in 1..5 :
            /\ age_group_mixing_weight(mixing_position(j, k))
                   = 5 ^ (5 - group_distance(j, k))
            /\ age_group_mixing_weight(mixing_position(j, k))
                   = age_group_mixing_weight(mixing_position(k, j))

\* The draws u in 0..1167 (prob = u / 1168) that select category c.
category_draws(c) == {u \in 0..1167 : category(u) = c}

\* C25 as claimed: whenever the formation loop draws a category, the draw
\* follows the weights 0.2, 0.8, 0.08, 0.08, 0.08 normalized by 1.168: the
\* three last categories are equally likely, and every draw selects exactly
\* one of the five categories.
C25_CategoryWeights ==
    (pc = "formation" /\ ~formed) =>
        /\ Cardinality(category_draws(1)) = 200
        /\ Cardinality(category_draws(2)) = 800
        /\ Cardinality(category_draws(3)) = 80
        /\ Cardinality(category_draws(4)) = Cardinality(category_draws(3))
        /\ Cardinality(category_draws(5)) = Cardinality(category_draws(3))
        /\ \A u \in 0..1167 : category(u) \in 1..5

\* C25 as amended: the draw follows the weights 0.2, 0.8, 0.08, 0.08, 0.008,
\* which sum to 1.168: the third and the fourth category are equally
\* likely, the fifth is ten times less likely, and every draw selects
\* exactly one of the five categories.
C25_CategoryWeightsSmallFifth ==
    (pc = "formation" /\ ~formed) =>
        /\ Cardinality(category_draws(1)) = 200
        /\ Cardinality(category_draws(2)) = 800
        /\ Cardinality(category_draws(3)) = 80
        /\ Cardinality(category_draws(4)) = 80
        /\ Cardinality(category_draws(5)) = 8
        /\ \A u \in 0..1167 : category(u) \in 1..5

\* C25 witness: the while loop of a formation slot is running and a draw
\* of the fifth category (a casual Partnership of two singles) can form a
\* Partnership.
C25_Witness ==
    /\ pc = "formation" /\ ~formed
    /\ \E q \in forming_samples(s) : q.c \in {category(u) : u \in 1160..1167}

\* C26: every Partnership in the active list joins one female and one male
\* individual: as built by the formation loop, the female first.  The
\* transmission phase therefore finds a male-to-female or a female-to-male
\* pair in every Partnership it evaluates.
C26_OneMaleOneFemale ==
    \A j \in 1..Len(s.partnerships) :
        /\ s.persons[s.partnerships[j].persons[1]].gender = 1
        /\ s.persons[s.partnerships[j].persons[2]].gender = 0

\* C26 witness: the end of a transmission phase in which a female, infected
\* for a day or more, has infected her male partner.
C26_Witness ==
    /\ pc = "separation" /\ s.time >= 1
    /\ \E j \in 1..Len(s.partnerships) :
           LET f == s.partnerships[j].persons[1]
               m == s.partnerships[j].persons[2]
           IN  /\ status(f) > 0 /\ s.persons[f].time_since_infection >= 1
               /\ status(m) > 0 /\ s.persons[m].time_since_infection = 0

\* C27: a call of remove_partner with a person that is not in the
\* individual's partner set fails with an error and leaves the partner
\* count, the partner set and the singles set as they were, the partner
\* count still being the size of the partner set.
C27_FailedRemoveLeavesState ==
    [][(~s.raised /\ s'.raised) =>
          /\ s'.singles = s.singles
          /\ \A id \in Ids(s) :
                 /\ s'.persons[id].number_of_partners
                        = s.persons[id].number_of_partners
                 /\ s'.persons[id].current_partners
                        = s.persons[id].current_partners
                 /\ s'.persons[id].number_of_partners
                        = Cardinality(s'.persons[id].current_partners)]_vars

\* The positions of the steady Partnerships of individual id in the list.
steady_of(id) ==
    {j \in steady_positions :
        id \in {s.partnerships[j].persons[1], s.partnerships[j].persons[2]}}

\* C28: a steady Partnership is formed only between two individuals that
\* are both in the singles set at that moment, and at every point of a run
\* an individual is a member of at most one steady Partnership.
C28_AtMostOneSteady ==
    /\ [](\A id \in Ids(s) : Cardinality(steady_of(id)) <= 1)
    /\ [][(Len(s'.partnerships) > Len(s.partnerships)
             /\ s'.partnerships[Len(s'.partnerships)].type = 1) =>
              /\ s'.partnerships[Len(s'.partnerships)].persons[1] \in s.singles
              /\ s'.partnerships[Len(s'.partnerships)].persons[2] \in s.singles]_vars

\* C28 witness: an individual with a steady and a casual Partnership, next
\* to an individual that is single.
C28_Witness ==
    /\ s.singles # {}
    /\ \E id \in Ids(s) :
           /\ Cardinality(steady_of(id)) = 1
           /\ Cardinality(s.persons[id].current_partners) = 2

\* C29: with non-negative incubation periods, every individual infected in
\* a transmission phase has a partner that was infected when the phase
\* began, and for at least incubation period + 1 days: an individual
\* infected in the phase infects nobody in it, so the infection moves by at
\* most one Partnership in a day.
C29_OneHopPerDay ==
    [][(/\ pc = "transmission"
        /\ s.incubation_time_men >= 0 /\ s.incubation_time_women >= 0) =>
          \A id \in Ids(s) :
              (status(id) = 0 /\ s'.persons[id].disease_status > 0) =>
                  \E other \in s.persons[id].current_partners :
                      /\ status(other) > 0
                      /\ s.persons[other].time_since_infection
                             >= incubation_time(s, other) + 1]_vars

\* C29 witness: the end of a transmission phase that infected an individual
\* over one Partnership and then came to a later Partnership of that
\* individual with a susceptible partner, which stays susceptible.
C29_Witness ==
    /\ pc = "separation" /\ s.time >= 1
    /\ \E j \in 1..Len(s.partnerships), k \in 1..Len(s.partnerships) :
           \E id \in Ids(s), source \in Ids(s), other \in Ids(s) :
               /\ j < k
               /\ {id, source} = {s.partnerships[j].persons[1],
                                  s.partnerships[j].persons[2]}
               /\ {id, other} = {s.partnerships[k].persons[1],
                                 s.partnerships[k].persons[2]}
               /\ status(id) > 0 /\ s.persons[id].time_since_infection = 0
               /\ status(source) > 0
               /\ s.persons[source].time_since_infection >= 1
               /\ status(other) = 0

\* The incubation period plus the treatment delay of the sex of id.
treatment_deadline(sys, id) ==
    IF sys.persons[id].gender = 0
    THEN sys.incubation_time_men + sys.patient_delay_treatment_men
    ELSE sys.incubation_time_women + sys.patient_delay_treatment_women

\* C30: at every day boundary, when incubation period plus treatment delay
\* is at least 1 for each sex, every symptomatic-sensitive individual has a
\* time-since-infection of at most the incubation period plus the
\* treatment delay of its sex.
C30_TreatedByDeadline ==
    (/\ boundary
     /\ s.incubation_time_men + s.patient_delay_treatment_men >= 1
     /\ s.incubation_time_women + s.patient_delay_treatment_women >= 1) =>
        \A id \in Ids(s) :
            status(id) = 1 =>
                s.persons[id].time_since_infection <= treatment_deadline(s, id)

\* C30 witness: the day boundary after the second day, with a
\* symptomatic-sensitive female that two treatment phases have left alone
\* and that is now at her deadline of 2 days.
C30_Witness ==
    /\ boundary /\ s.time = 2
    /\ \E id \in Ids(s) :
           /\ status(id) = 1 /\ s.persons[id].gender = 1
           /\ treatment_deadline(s, id) = 2
           /\ s.persons[id].time_since_infection = 2

\* The nodes of the running network_model with a non-zero disease status.
diseased_nodes == {v \in DOMAIN net.data : net.data[v].disease_status # 0}

\* C31: in network_model, at the end of every time step the infected set is
\* exactly the set of nodes with a non-zero disease status and the recorded
\* resistant count is at most the recorded infected count, which is the
\* size of the infected set.  A node that carries the resistant strain
\* becomes susceptible only in its own pass of the loop and only when the
\* comparison with the recovery probability nu succeeds: whatever the two
\* treatment comparisons give, it keeps the resistant strain otherwise.
C31_NetworkInfectedSet ==
    /\ [](net.pc = "step" =>
             /\ net.infected = diseased_nodes
             /\ Len(net.num_res) = net.t /\ Len(net.num_infected) = net.t
             /\ \A k \in 1..net.t : net.num_res[k] <= net.num_infected[k]
             /\ net.t > 0 => net.num_infected[net.t] = Cardinality(net.infected))
    /\ [](net.pc = "visit" =>
             \A v \in net.infected_copy :
                 net.data[v].disease_status = 2 =>
                     \A r \in BOOLEAN, c \in BOOLEAN, m \in BOOLEAN :
                         node_chain(net, v, r, c, m).data[v].disease_status
                             = IF r THEN 0 ELSE 2)
    /\ [][\A v \in DOMAIN net.data :
              (net.data[v].disease_status = 2
                   /\ net'.data[v].disease_status # 2) =>
                  /\ net.pc = "visit"
                  /\ v \in net.infected_copy /\ v \notin net'.infected_copy
                  /\ net'.data[v].disease_status = 0]_vars

\* C31 witness: the end of the second time step of a run whose records show
\* one resistant node after the first step and none after the second, with
\* a node still infected: the resistant node has recovered.
C31_Witness ==
    /\ net.pc = "step" /\ net.t = 2
    /\ net.num_res = <<1, 0>>
    /\ net.num_infected[2] >= 1
    /\ \E v \in DOMAIN net.data : v \notin net.infected

====
